---- MODULE Spec2Model ----
(***************************************************************************)
(* chat-helper: the command parser (src/agent.py), the reply router and    *)
(* message handler (src/agent.py, src/signal_client.py), the bounded tool  *)
(* loop (src/agent.py), the reconnecting listener (src/signal_client.py),   *)
(* the dispatcher (src/main.py) and the chat client (src/ollama_client.py). *)
(*                                                                         *)
(* Strings are sequences of one-character strings, so that split(),        *)
(* strip(), lower(), int() and join() are computed, not assumed.           *)
(***************************************************************************)
EXTENDS Integers, Sequences, FiniteSets, TLC

VARIABLES
    text,       \* SpecParse: the argument of _parse_command
    parsed,     \* SpecParse: its return value, or NotParsed
    ppc,        \* SpecParse: "in" before the call, "out" after it
    lpc,        \* listen(): where the generator stands
    delay,      \* listen(): the local `delay`
    fails,      \* failures since the last successful connection (observer)
    waits,      \* the last sleeps of listen(), oldest first (observer)
    yielded,    \* number of InboundMessages listen() has yielded
    lastEvent,  \* the frame the open connection delivered last, and what listen() yielded for it (observer)
    allowed,    \* settings.allowed_numbers
    maxIter,    \* settings.max_tool_iterations
    msg,        \* the InboundMessage handle_message was called with
    apc,        \* where the handling task stands
    cmd,        \* handle_message: local `cmd`
    level,      \* handle_message: local `level`
    content,    \* handle_message: local `content`
    posts,      \* the POSTs made to /v2/send, oldest first (observer)
    replyCalls, \* calls of _reply and _run_help so far (observer)
    deliveries, \* times handle_message was called with msg (observer)
    messages,   \* _tool_loop: the transcript `messages`
    iteration,  \* _tool_loop: the loop variable `iteration`
    pending,    \* _tool_loop: the tool calls of `tool_calls` not yet processed
    answer,     \* _tool_loop: its return value
    chatLog,    \* one entry per chat() call of the run: were tools offered (observer)
    toolRuns,   \* tool functions executed in the run (observer)
    args,       \* _tool_loop: the local `args` of the call being processed
    replied,    \* what the chat() call of the last step returned, if the last step was one (observer)
    err,        \* the exception raised in the task, or "none"
    mpc,        \* main(): where the dispatcher stands
    ingested,   \* the messages `async for msg in sender.listen()` has received, oldest first (observer)
    tasks,      \* the tasks asyncio.create_task has made, in creation order
    fallback,   \* OllamaClient._tool_use_fallback
    tools,      \* chat(): is the argument `tools` a non-empty list
    served,     \* chat(): the response of the server to the POST
    returned,   \* chat(): what the call returned or raised, or NotReturned
    cpc         \* SpecChat: "in" before the call, "out" after it

parseVars == <<text, parsed, ppc>>

listenVars == <<lpc, delay, fails, waits, yielded, lastEvent>>

settingsVars == <<allowed, maxIter>>

loopVars == <<messages, iteration, pending, answer, chatLog, toolRuns, args, replied>>

agentVars ==
    <<settingsVars, <<msg, apc, cmd, level, content, posts, replyCalls, deliveries, err>>, loopVars>>

mainVars == <<mpc, ingested, tasks>>

chatVars == <<fallback, tools, served, returned, cpc>>

vars == <<parseVars, listenVars, agentVars, mainVars, chatVars>>

----------------------------------------------------------------------------
(* Bounds *)

\* most whitespace-separated tokens in a text handed to the parser
MaxTokens == 3

\* the count of consecutive failures saturates here (2^(MaxFails-1) > 60)
MaxFails == 8

\* how many of the latest sleeps are remembered
MaxWaits == 4

\* largest max_tool_iterations a tool loop is run with
MaxIter == 2

\* most tool calls in one model response
MaxCalls == 2

\* times handle_message is called with the same message
MaxDeliveries == 2

\* the messages main() receives
MaxTasks == 2

----------------------------------------------------------------------------
(* Python string primitives, on sequences of characters *)

\* the whitespace characters the inputs use (str.split / str.strip split on these)
IsSpace(c) == c \in {" ", "\n", "\t"}

IsDigit(c) == c \in {"0", "1", "2", "3", "4", "5", "6", "7", "8", "9"}

DigitVal(c) ==
    CASE c = "0" -> 0 [] c = "1" -> 1 [] c = "2" -> 2 [] c = "3" -> 3
      [] c = "4" -> 4 [] c = "5" -> 5 [] c = "6" -> 6 [] c = "7" -> 7
      [] c = "8" -> 8 [] c = "9" -> 9

\* str.lower(), character by character of the input alphabet
Lower(s) ==
    [ i \in 1..Len(s) |->
        CASE s[i] = "E" -> "e" [] s[i] = "C" -> "c" [] s[i] = "H" -> "h" [] s[i] = "X" -> "x"
          [] OTHER -> s[i] ]

RECURSIVE LStrip(_)
LStrip(s) == IF s # <<>> /\ IsSpace(Head(s)) THEN LStrip(Tail(s)) ELSE s

RECURSIVE RStrip(_)
RStrip(s) ==
    IF s # <<>> /\ IsSpace(s[Len(s)]) THEN RStrip(SubSeq(s, 1, Len(s) - 1)) ELSE s

\* leading whitespace removed, trailing whitespace kept
Strip_LeftOnly(s) == LStrip(s)

\* str.strip()
Strip(s) == RStrip(LStrip(s))

\* the k-th smallest element of a set of integers
Kth(S, k) == CHOOSE i \in S : Cardinality({ j \in S : j <= i }) = k

\* str.split() with no separator: the maximal runs of non-whitespace
\* characters, the k-th from the k-th position where a run starts to the
\* k-th position where a run ends
Split(s) ==
    LET starts == { i \in 1..Len(s) : ~IsSpace(s[i]) /\ (i = 1 \/ IsSpace(s[i - 1])) }
        ends == { i \in 1..Len(s) : ~IsSpace(s[i]) /\ (i = Len(s) \/ IsSpace(s[i + 1])) } IN
    [ k \in 1..Cardinality(starts) |-> SubSeq(s, Kth(starts, k), Kth(ends, k)) ]

\* "".join(list): the tokens run together
RECURSIVE Join_NoSeparator(_)
Join_NoSeparator(ts) ==
    IF ts = <<>> THEN <<>>
    ELSE IF Len(ts) = 1 THEN ts[1]
    ELSE LET h == Len(ts) \div 2 IN
         Join_NoSeparator(SubSeq(ts, 1, h)) \o Join_NoSeparator(SubSeq(ts, h + 1, Len(ts)))

\* " ".join(list): the two halves of the list joined, a space between them
RECURSIVE Join(_)
Join(ts) ==
    IF ts = <<>> THEN <<>>
    ELSE IF Len(ts) = 1 THEN ts[1]
    ELSE LET h == Len(ts) \div 2 IN
         Join(SubSeq(ts, 1, h)) \o <<" ">> \o Join(SubSeq(ts, h + 1, Len(ts)))

\* int(str) raises ValueError unless the string is an optional sign followed by
\* decimal digits, where single underscores may separate digits
IntBody(s) == IF s # <<>> /\ Head(s) \in {"+", "-"} THEN Tail(s) ELSE s

IsIntLiteral(s) ==
    LET b == IntBody(s) IN
    /\ b # <<>>
    /\ \A i \in 1..Len(b) : IsDigit(b[i]) \/ b[i] = "_"
    /\ IsDigit(b[1]) /\ IsDigit(b[Len(b)])
    /\ \A i \in 1..(Len(b) - 1) : ~(b[i] = "_" /\ b[i + 1] = "_")

RECURSIVE DigitsValue(_, _)
DigitsValue(b, acc) ==
    IF b = <<>> THEN acc
    ELSE IF Head(b) = "_" THEN DigitsValue(Tail(b), acc)
    ELSE DigitsValue(Tail(b), 10 * acc + DigitVal(Head(b)))

\* the value of int(s) when IsIntLiteral(s)
IntValue(s) ==
    IF Head(s) = "-" THEN 0 - DigitsValue(IntBody(s), 0) ELSE DigitsValue(IntBody(s), 0)

Min2(a, b) == IF a < b THEN a ELSE b
Max2(a, b) == IF a > b THEN a ELSE b

----------------------------------------------------------------------------
(* src/agent.py: the command parser *)

CmdE == <<"/", "e">>
CmdC == <<"/", "c">>
CmdH == <<"/", "h">>

\* COMMANDS = {"/e", "/c", "/h"}
COMMANDS == {CmdE, CmdC, CmdH}

DEFAULT_LEVEL == 5

\* cmd: str | None
NoCmd == <<>>

ClampLevel_NoFloor(n) == Min2(10, n)

\* max(1, min(10, int(tok)))
ClampLevel(n) == Max2(1, Min2(10, n))

IsCommand_Prefix(token) ==
    Len(token) >= 2 /\ SubSeq(Lower(token), 1, 2) \in {<<"/", "e">>, <<"/", "c">>, <<"/", "h">>}

\* token.lower() in COMMANDS
IsCommand(token) == Lower(token) \in COMMANDS

\* LoopRound without the `cmd is None` test: a later command token replaces the first
LoopRound_LastWins(tokens, i, st) ==
    IF st.skip_next
    THEN [st EXCEPT !.skip_next = FALSE]
    ELSE IF Lower(tokens[i]) \in {<<"/", "e">>, <<"/", "c">>, <<"/", "h">>}
    THEN IF i + 1 <= Len(tokens) /\ IsIntLiteral(tokens[i + 1])
         THEN [st EXCEPT !.cmd = Lower(tokens[i]),
                         !.level = Max2(1, Min2(10, IntValue(tokens[i + 1]))),
                         !.skip_next = TRUE]
         ELSE [st EXCEPT !.cmd = Lower(tokens[i])]
    ELSE [st EXCEPT !.remaining = Append(@, tokens[i])]

\* the body of `for i, token in enumerate(tokens)` for the token at index i:
\* the locals after the round, st holding them before it
LoopRound(tokens, i, st) ==
    IF st.skip_next
    THEN [st EXCEPT !.skip_next = FALSE]
    ELSE IF IsCommand(tokens[i]) /\ st.cmd = NoCmd
    THEN IF i + 1 <= Len(tokens) /\ IsIntLiteral(tokens[i + 1])
         THEN [st EXCEPT !.cmd = Lower(tokens[i]),
                         !.level = ClampLevel(IntValue(tokens[i + 1])),
                         !.skip_next = TRUE]
         ELSE [st EXCEPT !.cmd = Lower(tokens[i])]
    ELSE [st EXCEPT !.remaining = Append(@, tokens[i])]

\* the rounds lo..hi of the for loop, in order: those of the first half of
\* the range, then, from the locals they leave, those of the second half
RECURSIVE ParseLoop(_, _, _, _)
ParseLoop(tokens, lo, hi, st) ==
    IF lo > hi THEN st
    ELSE IF lo = hi THEN LoopRound(tokens, lo, st)
    ELSE LET mid == (lo + hi) \div 2 IN
         CHOOSE after \in { ParseLoop(tokens, mid + 1, hi, half) :
                               half \in { ParseLoop(tokens, lo, mid, st) } } : TRUE

\* _parse_command(text) -> (cmd, level, inline_text)
ParseCommand(t) ==
    LET tokens == Split(Strip(t))
        st == ParseLoop(tokens, 1, Len(tokens), [cmd |-> NoCmd, level |-> DEFAULT_LEVEL,
                                                   remaining |-> <<>>, skip_next |-> FALSE]) IN
    [cmd |-> st.cmd, level |-> st.level, inline_text |-> Join(st.remaining)]

----------------------------------------------------------------------------
(* The texts the parser is applied to *)

\* the whitespace before the first and after the last word
Pads == { <<>>, <<" ">> }

\* the words of ws, in order, with the same whitespace g between neighbours
RECURSIVE Render(_, _)
Render(ws, g) ==
    IF ws = <<>> THEN <<>>
    ELSE IF Len(ws) = 1 THEN ws[1]
    ELSE ws[1] \o g \o Render(Tail(ws), g)

\* the texts made of up to MaxTokens words, with the same whitespace between
\* neighbours and a pad before and after
Texts ==
    LET Words == { <<"/", "e">>, <<"/", "E">>, <<"/", "c">>, <<"/", "h">>,
                   <<"7">>, <<"1", "5">>, <<"-", "3">>, <<"x">>, <<"/", "e", "x">> }
        Gaps == { <<" ">>, <<"\n", " ">> }
        WordLists == UNION { [1..n -> Words] : n \in 0..MaxTokens } IN
    { a \o Render(ws, g) \o b : a \in Pads, b \in Pads, g \in Gaps, ws \in WordLists }

NotParsed == [cmd |-> NoCmd, level |-> 0, inline_text |-> <<>>]

----------------------------------------------------------------------------
(* src/models.py, src/config.py: messages and settings *)

\* settings.signal_phone_number, the bot's own number
Owner == "+1"

\* Optional[GroupInfo]: None, or a GroupInfo with this group_id
None == "None"

\* the message texts handle_message is called with
AgentTexts ==
    { <<"/", "h">>,
      <<"/", "e">>,
      <<"x", " ", "/", "E", " ", "1", "5">>,
      <<"/", "c", " ", "7">>,
      <<"x">>,
      <<"/", "e", "x", " ", "7">> }

\* the values an InboundMessage can take (source_name and timestamp are not read);
\* group_info is None or a GroupInfo with this group_id, quote is None
\* (present = FALSE) or a Quote with this text
InboundMessages ==
    [ source_number : {"+1", "+2", "+3"},
      message_text : AgentTexts,
      group_info : {None, "g1"},
      quote : { [present |-> FALSE, text |-> <<>>],
                [present |-> TRUE, text |-> <<" ", " ">>],
                [present |-> TRUE, text |-> <<" ", "q", " ">>] } ]

NoMessage ==
    [ source_number |-> "", message_text |-> <<>>, group_info |-> None,
      quote |-> [present |-> FALSE, text |-> <<>>] ]

\* no frame has arrived since the connection was opened
NoEvent ==
    [ seen |-> FALSE, yields |-> 0,
      frame |-> [ json |-> FALSE, dict |-> FALSE, typing |-> FALSE, receipt |-> FALSE,
                  data |-> [kind |-> "absent", message |-> <<>>],
                  sync |-> [kind |-> "absent", message |-> <<>>] ] ]

\* the local `args` of _tool_loop while no tool call is being processed
NoArgs == [type |-> "none", s |-> <<>>, n |-> 0, items |-> {}]

\* the last step was not a chat() call that returned
NoReply == [got |-> FALSE, content |-> <<>>, calls |-> 0]

\* response = await self._ollama.chat(...): what came back
Got(response) ==
    [got |-> TRUE, content |-> response.content, calls |-> Len(response.tool_calls)]

----------------------------------------------------------------------------
(* The values of the variables a specification does not use *)

ParseIdle ==
    /\ text = <<>>
    /\ parsed = NotParsed
    /\ ppc = "off"

ListenIdle ==
    /\ lpc = "off"
    /\ delay = 1
    /\ fails = 0
    /\ waits = <<>>
    /\ yielded = 0
    /\ lastEvent = NoEvent

LoopIdle ==
    /\ messages = <<>>
    /\ iteration = 0
    /\ pending = <<>>
    /\ answer = <<>>
    /\ chatLog = <<>>
    /\ toolRuns = 0
    /\ args = NoArgs
    /\ replied = NoReply

AgentIdle ==
    /\ allowed = {}
    /\ maxIter = 0
    /\ msg = NoMessage
    /\ apc = "off"
    /\ cmd = NoCmd
    /\ level = 0
    /\ content = <<>>
    /\ posts = <<>>
    /\ replyCalls = 0
    /\ deliveries = 0
    /\ err = "none"
    /\ LoopIdle

MainIdle ==
    /\ mpc = "off"
    /\ ingested = <<>>
    /\ tasks = <<>>

\* chat() has not returned
NotReturned == [raised |-> "none", content |-> <<>>, tool_calls |-> <<>>]

ChatIdle ==
    /\ fallback = FALSE
    /\ tools = FALSE
    /\ served = [status |-> 0, content |-> <<>>, tool_calls |-> <<>>]
    /\ returned = NotReturned
    /\ cpc = "off"

----------------------------------------------------------------------------
(* src/signal_client.py: parse_envelope and SignalClient.listen *)

\* envelope["dataMessage"] and envelope["syncMessage"]["sentMessage"]: absent
\* (None), an empty object {}, or an object with a "message" text
Bodies ==
    { [kind |-> "absent", message |-> <<>>], [kind |-> "empty", message |-> <<>>] }
    \cup [kind : {"object"}, message : { <<>>, <<" ">>, <<"/", "h">> }]

Absent == [kind |-> "absent", message |-> <<>>]

\* the frames a connection delivers: a text json.loads rejects (json = FALSE),
\* a JSON value that is no object (dict = FALSE), or an object whose envelope
\* has an ignorable key (typing, receipt) or not, and the bodies `data`, `sync`
Frames ==
    { [json |-> FALSE, dict |-> FALSE, typing |-> FALSE, receipt |-> FALSE,
       data |-> Absent, sync |-> Absent],
      [json |-> TRUE, dict |-> FALSE, typing |-> FALSE, receipt |-> FALSE,
       data |-> Absent, sync |-> Absent] }
    \cup [ json : {TRUE}, dict : {TRUE}, typing : BOOLEAN, receipt : BOOLEAN,
           data : Bodies, sync : Bodies ]

\* the fields of the InboundMessage dataclass
InboundMessageFields ==
    {"source_number", "source_name", "message_text", "timestamp", "group_info", "quote"}

\* the keyword arguments parse_envelope passes to InboundMessage(...)
ParseEnvelopeKwargs ==
    {"source_number", "source_name", "message_text", "timestamp", "group_info", "quote",
     "destination_number"}

\* a dataclass __init__ raises TypeError on a keyword that is not a field
Construct(kwargs) == IF kwargs \subseteq InboundMessageFields THEN "message" ELSE "TypeError"

\* parse_envelope(raw): "None", "message", or the exception it raises
ParseEnvelope(f) ==
    LET data_message == IF f.data.kind = "absent" THEN f.sync ELSE f.data IN
    IF f.typing \/ f.receipt THEN "None"
    ELSE IF data_message.kind \in {"absent", "empty"} THEN "None"
    ELSE IF Strip(data_message.message) = <<>> THEN "None"
    ELSE Construct(ParseEnvelopeKwargs)

\* what one iteration of `async for raw_text in ws` does with a frame:
\* "continue" (frame skipped), "yield", or the exception raised
OnFrame(f) ==
    IF ~f.json THEN "continue"
    ELSE IF ~f.dict THEN "AttributeError"
    ELSE LET r == ParseEnvelope(f) IN
         IF r = "None" THEN "continue" ELSE IF r = "message" THEN "yield" ELSE r

Caught_OnlyClosed(exc) == exc = "ConnectionClosed"

\* the exceptions the two except clauses of listen() handle
Caught(exc) == exc \in {"ConnectionClosed", "Exception", "TypeError", "AttributeError", "OSError"}

NextDelay_NoCap(d) == d * 2

\* delay = min(delay * 2, 60)
NextDelay(d) == Min2(d * 2, 60)

\* delay = 1 on a successful connection
ResetDelay == 1

\* append to a window of the latest MaxWaits sleeps
Remember(ws, d) ==
    IF Len(ws) < MaxWaits THEN Append(ws, d) ELSE Append(Tail(ws), d)

\* leaving the try block, by an exception or by the end of `async for`:
\* a handled one reaches asyncio.sleep(delay), any other ends the generator
Leave(exc) ==
    /\ IF exc = "end" \/ Caught(exc)
       THEN /\ lpc' = "sleeping"
            /\ fails' = Min2(fails + 1, MaxFails)
            /\ waits' = Remember(waits, delay)
       ELSE /\ lpc' = "terminated"
            /\ UNCHANGED <<fails, waits>>
    /\ UNCHANGED <<delay, yielded>>

\* the frame f has been taken from the connection and n messages were yielded for it
Seen(f, n) == [seen |-> TRUE, yields |-> n, frame |-> f]

\* websockets.connect(...) succeeds: delay = 1, then wait for frames
ConnectOk ==
    /\ lpc = "connecting"
    /\ lpc' = "connected"
    /\ delay' = ResetDelay
    /\ fails' = 0
    /\ lastEvent' = NoEvent
    /\ UNCHANGED <<waits, yielded>>
    /\ UNCHANGED <<chatVars, parseVars, agentVars, mainVars>>

\* websockets.connect(...) raises
ConnectFail ==
    /\ lpc = "connecting"
    /\ \E exc \in {"OSError", "Exception"} : Leave(exc)
    /\ UNCHANGED lastEvent
    /\ UNCHANGED <<chatVars, parseVars, agentVars, mainVars>>

\* one frame arrives on the open connection
Frame ==
    /\ lpc = "connected"
    /\ \E f \in Frames :
         LET o == OnFrame(f) IN
         IF o = "continue"
         THEN /\ lastEvent' = Seen(f, 0)
              /\ UNCHANGED <<lpc, delay, fails, waits, yielded>>
         ELSE IF o = "yield"
         THEN /\ yielded' = yielded + 1
              /\ lastEvent' = Seen(f, 1)
              /\ UNCHANGED <<lpc, delay, fails, waits>>
         ELSE /\ lastEvent' = Seen(f, 0)
              /\ Leave(o)
    /\ UNCHANGED <<chatVars, parseVars, agentVars, mainVars>>

\* the connection is lost: ConnectionClosed is raised, or `async for` ends
Drop ==
    /\ lpc = "connected"
    /\ \E exc \in {"ConnectionClosed", "end"} : Leave(exc)
    /\ lastEvent' = NoEvent
    /\ UNCHANGED <<chatVars, parseVars, agentVars, mainVars>>

\* asyncio.sleep(delay) returns; delay = min(delay * 2, 60); next `while True` round
Wake ==
    /\ lpc = "sleeping"
    /\ lpc' = "connecting"
    /\ delay' = NextDelay(delay)
    /\ lastEvent' = NoEvent
    /\ UNCHANGED <<fails, waits, yielded>>
    /\ UNCHANGED <<chatVars, parseVars, agentVars, mainVars>>

\* delay = 1, then the first `while True` round
InitListen ==
    /\ ChatIdle
    /\ lpc = "connecting"
    /\ delay = 1
    /\ fails = 0
    /\ waits = <<>>
    /\ yielded = 0
    /\ lastEvent = NoEvent
    /\ ParseIdle
    /\ AgentIdle
    /\ MainIdle

NextListen == ConnectOk \/ ConnectFail \/ Frame \/ Drop \/ Wake

SpecListen == InitListen /\ [][NextListen]_vars

\* asyncio.sleep returns after its delay, and a connection attempt returns or raises
SpecListenFair ==
    /\ SpecListen
    /\ WF_vars(Wake)
    /\ WF_vars(ConnectOk \/ ConnectFail)

----------------------------------------------------------------------------
(* src/signal_client.py, src/agent.py: the reply router *)

Dm(number) == [kind |-> "dm", id |-> number]

\* SignalClient.send_to_chat: the payload's destination, or the exception raised
\* before the POST.  `msg.destination_number` is read when the message has no
\* group; InboundMessage has no such attribute
SendToChat(m) ==
    IF m.group_info # None
    THEN [raised |-> "none", dest |-> [kind |-> "group", id |-> m.group_info]]
    ELSE IF "destination_number" \notin InboundMessageFields
    THEN [raised |-> "AttributeError", dest |-> [kind |-> "none", id |-> ""]]
    ELSE [raised |-> "none", dest |-> Dm(m.source_number)]

\* SignalClient.send_message(text, recipient_number)
SendMessage(number) == [raised |-> "none", dest |-> Dm(number)]

\* Agent._is_owner
IsOwner(m) == m.source_number = Owner

\* Agent._reply
Reply(m) == IF IsOwner(m) THEN SendToChat(m) ELSE SendMessage(m.source_number)

\* Agent._run_help
RunHelp(m) == SendToChat(m)

Denied_Inverted(allow, number) == allow # {} /\ number \in allow

\* handle_message: allowed_numbers and source_number not in allowed_numbers
Denied(allow, number) == allow # {} /\ number \notin allow

----------------------------------------------------------------------------
(* src/agent.py: the transcript and the model's responses *)

Entry(role, kind, lvl, txt, name, result, calls) ==
    [ role |-> role, kind |-> kind, level |-> lvl, text |-> txt, name |-> name,
      result |-> result, calls |-> calls ]

\* the expand prompt for every command
PromptKind_AlwaysExpand(c) == "expand"

\* which of _expand_system / _condense_system built the system prompt
PromptKind(c) == IF c = CmdE THEN "expand" ELSE "condense"

\* the same two entries, the user entry first
InitTranscript_UserFirst(c, lvl, txt) ==
    << Entry("user", PromptKind(c), 0, txt, "", "", <<>>),
       Entry("system", PromptKind(c), lvl, <<>>, "", "", <<>>) >>

\* messages = [{"role": "system", ...}, {"role": "user", ...}]
InitTranscript(c, lvl, txt) ==
    << Entry("system", PromptKind(c), lvl, <<>>, "", "", <<>>),
       Entry("user", PromptKind(c), 0, txt, "", "", <<>>) >>

\* TOOL_REGISTRY
TOOL_REGISTRY == {"web_search", "get_transcript", "fetch_page"}

\* Python values: the `arguments` of a tool call and what json.loads returns.
\* A dict is the set of its items; the values of its items are strings or ints.
Scalar(type, str, n) == [type |-> type, s |-> str, n |-> n]

PyStr(str) == [type |-> "str", s |-> str, n |-> 0, items |-> {}]

PyDict(items) == [type |-> "dict", s |-> <<>>, n |-> 0, items |-> items]

Item(key, val) == [key |-> key, val |-> val]

\* dict(pairs): a later pair replaces an earlier pair with the same key
RECURSIVE AsDict(_)
AsDict(pairs) ==
    IF pairs = <<>> THEN {}
    ELSE LET last == pairs[Len(pairs)]
             rest == AsDict(SubSeq(pairs, 1, Len(pairs) - 1)) IN
         { it \in rest : it.key # last.key } \cup {last}

Keys(items) == { it.key : it \in items }

\* the parameter names of the tools
KeyQuery == <<"q", "u", "e", "r", "y">>
KeyMaxResults == <<"m", "a", "x", "_", "r", "e", "s", "u", "l", "t", "s">>
KeyUrl == <<"u", "r", "l">>

----------------------------------------------------------------------------
(* json: the text of a value and json.loads, for objects of strings and      *)
(* integers, strings without escapes                                         *)

DQ == "\""

DigitChar(d) == CHOOSE c \in {"0", "1", "2", "3", "4", "5", "6", "7", "8", "9"} : DigitVal(c) = d

RECURSIVE Decimal(_)
Decimal(n) ==
    IF n < 0 THEN <<"-">> \o Decimal(0 - n)
    ELSE IF n < 10 THEN <<DigitChar(n)>>
    ELSE Decimal(n \div 10) \o <<DigitChar(n % 10)>>

\* the JSON text of a string or an integer
ScalarText(v) == IF v.type = "str" THEN <<DQ>> \o v.s \o <<DQ>> ELSE Decimal(v.n)

RECURSIVE ItemsText(_, _, _)
ItemsText(pairs, comma, colon) ==
    IF pairs = <<>> THEN <<>>
    ELSE LET one == <<DQ>> \o pairs[1].key \o <<DQ>> \o colon \o ScalarText(pairs[1].val) IN
         IF Len(pairs) = 1 THEN one
         ELSE one \o comma \o ItemsText(Tail(pairs), comma, colon)

\* the JSON text of an object with these items, in this order: json.dumps
\* writes ", " and ": ", a compact encoder "," and ":"
JsonDumps(pairs, compact) ==
    <<"{">> \o ItemsText(pairs, IF compact THEN <<",">> ELSE <<",", " ">>,
                         IF compact THEN <<":">> ELSE <<":", " ">>) \o <<"}">>

\* the character at position i, "" past the end
Ch(str, i) == IF i <= Len(str) THEN str[i] ELSE ""

RECURSIVE SkipWs(_, _)
SkipWs(str, i) == IF i <= Len(str) /\ IsSpace(str[i]) THEN SkipWs(str, i + 1) ELSE i

\* the position of the first `ch` at or after j, 0 when there is none
RECURSIVE Find(_, _, _)
Find(str, j, ch) ==
    IF j > Len(str) THEN 0 ELSE IF str[j] = ch THEN j ELSE Find(str, j + 1, ch)

RECURSIVE DigitsEnd(_, _)
DigitsEnd(str, j) == IF j <= Len(str) /\ IsDigit(str[j]) THEN DigitsEnd(str, j + 1) ELSE j

Scanned(ok, val, next) == [ok |-> ok, val |-> val, next |-> next]

NoScalar == Scalar("none", <<>>, 0)

\* a string: from the quote at i to the next quote
ScanString(str, i) ==
    LET j == Find(str, i + 1, DQ) IN
    IF Ch(str, i) # DQ \/ j = 0 THEN Scanned(FALSE, NoScalar, i)
    ELSE Scanned(TRUE, Scalar("str", SubSeq(str, i + 1, j - 1), 0), j + 1)

\* an integer: an optional minus, then digits without a leading zero
ScanInt(str, i) ==
    LET b == IF Ch(str, i) = "-" THEN i + 1 ELSE i
        e == DigitsEnd(str, b)
        digits == SubSeq(str, b, e - 1) IN
    IF e = b \/ (e - b > 1 /\ str[b] = "0") THEN Scanned(FALSE, NoScalar, i)
    ELSE Scanned(TRUE, Scalar("int", <<>>, IF b > i THEN 0 - DigitsValue(digits, 0)
                                                   ELSE DigitsValue(digits, 0)), e)

ScanScalar(str, i) ==
    IF Ch(str, i) = DQ THEN ScanString(str, i)
    ELSE IF Ch(str, i) = "-" \/ IsDigit(Ch(str, i)) THEN ScanInt(str, i)
    ELSE Scanned(FALSE, NoScalar, i)

NoItems == [ok |-> FALSE, items |-> {}, next |-> 0]

\* the items of an object from position i, where a key is expected, to its "}"
RECURSIVE ScanItems(_, _, _)
ScanItems(str, i, acc) ==
    LET k == ScanString(str, SkipWs(str, i))
        colon == SkipWs(str, k.next)
        v == ScanScalar(str, SkipWs(str, colon + 1))
        after == SkipWs(str, v.next)
        items == { it \in acc : it.key # k.val.s } \cup { Item(k.val.s, v.val) } IN
    IF ~k.ok \/ Ch(str, colon) # ":" \/ ~v.ok THEN NoItems
    ELSE IF Ch(str, after) = "," THEN ScanItems(str, after + 1, items)
    ELSE IF Ch(str, after) = "}" THEN [ok |-> TRUE, items |-> items, next |-> after + 1]
    ELSE NoItems

\* an object: from the "{" at i
ScanObject(str, i) ==
    LET j == SkipWs(str, i + 1) IN
    IF Ch(str, j) = "}" THEN [ok |-> TRUE, items |-> {}, next |-> j + 1]
    ELSE ScanItems(str, j, {})

\* json.loads(str): the value, or ok = FALSE for json.JSONDecodeError
JsonLoads(str) ==
    LET i == SkipWs(str, 1) IN
    IF Ch(str, i) = "{"
    THEN LET o == ScanObject(str, i) IN
         [ok |-> o.ok /\ SkipWs(str, o.next) = Len(str) + 1, value |-> PyDict(o.items)]
    ELSE LET v == ScanScalar(str, i) IN
         [ok |-> v.ok /\ SkipWs(str, v.next) = Len(str) + 1,
          value |-> IF v.val.type = "int" THEN [type |-> "int", s |-> <<>>, n |-> v.val.n, items |-> {}] ELSE PyStr(v.val.s)]

----------------------------------------------------------------------------
(* src/agent.py: the tool calls of a response *)

\* the argument lists the model asks for
QueryArgs == << Item(KeyQuery, Scalar("str", <<"a">>, 0)) >>

QueryCountArgs == << Item(KeyQuery, Scalar("str", <<"a">>, 0)), Item(KeyMaxResults, Scalar("int", <<>>, 3)) >>

BogusArgs == << Item(<<"b", "o", "g", "u", "s">>, Scalar("str", <<"a">>, 0)) >>

\* what OllamaClient.chat returns: response["content"] (the empty text also
\* stands for an absent key) and up to MaxCalls tool calls, whose `arguments`
\* is a mapping, or a string holding the JSON text of one, well-formed or cut
\* before its closing brace
Responses ==
    LET Calls == { [name |-> "web_search", arguments |-> PyDict(AsDict(QueryArgs))],
                   [name |-> "web_search", arguments |-> PyStr(JsonDumps(QueryArgs, FALSE))],
                   [name |-> "web_search", arguments |-> PyStr(JsonDumps(QueryCountArgs, TRUE))],
                   [name |-> "web_search", arguments |-> PyStr(SubSeq(JsonDumps(QueryArgs, FALSE), 1, Len(JsonDumps(QueryArgs, FALSE)) - 1))],
                   [name |-> "web_search", arguments |-> PyDict(AsDict(BogusArgs))],
                   [name |-> "nonexistent_tool", arguments |-> PyDict(AsDict(QueryArgs))] }
        CallLists == UNION { [1..n -> Calls] : n \in 0..MaxCalls }
        Contents == { <<>>, <<" ", "a", " ">> } IN
    [ content : Contents, tool_calls : CallLists ]

\* the arguments are used as they arrive
DecodeArgs_Undecoded(a) == a

\* isinstance(args, str): json.loads(args), {} on JSONDecodeError
DecodeArgs(a) ==
    IF a.type = "str"
    THEN LET r == JsonLoads(a.s) IN IF r.ok THEN r.value ELSE PyDict({})
    ELSE a

\* tool_fn(**args) binds its parameters, or raises TypeError
Binds(name, a) ==
    /\ a.type = "dict"
    /\ (IF name = "web_search" THEN {KeyQuery} ELSE {KeyUrl}) \subseteq Keys(a.items)
    /\ Keys(a.items) \subseteq (IF name = "web_search" THEN {KeyQuery, KeyMaxResults} ELSE {KeyUrl})

\* a handler that catches the errors of the HTTP request only
ToolCaught_OnlyHttp(exc) == exc = "HTTPStatusError"

\* except Exception as e
ToolCaught(exc) == exc \in {"TypeError", "KeyError", "HTTPStatusError"}

\* result = f"Tool error: {e}" when the handler catches exc; else exc leaves the loop
Catch(exc) ==
    IF ToolCaught(exc) THEN [raised |-> "none", result |-> "Tool error"]
    ELSE [raised |-> exc, result |-> ""]

\* what processing one call can come to: the text for a name TOOL_REGISTRY
\* lacks; for a registered tool, the TypeError of tool_fn(**args) when the
\* arguments do not bind, and otherwise what the tool returns or raises
Outcomes(call, a) ==
    IF call.name \notin TOOL_REGISTRY THEN { [raised |-> "none", result |-> "Unknown tool"] }
    ELSE IF ~Binds(call.name, a) THEN { Catch("TypeError") }
    ELSE { [raised |-> "none", result |-> "Tool result"] } \cup { Catch(exc) : exc \in {"KeyError", "HTTPStatusError"} }

\* the entry without its "name" key
ToolEntry_Untagged(call, result) == Entry("tool", "", 0, <<>>, "", result, <<>>)

\* {"role": "tool", "content": result, "name": name}
ToolEntry(call, result) == Entry("tool", "", 0, <<>>, call.name, result, <<>>)

InRange_OffByOne(i, n) == i <= n

\* for iteration in range(max_tool_iterations)
InRange(i, n) == i < n

----------------------------------------------------------------------------
(* src/agent.py: Agent.handle_message *)

\* handle_message up to its first await: parse, access control, routing
Handle ==
    /\ apc = "start"
    /\ LET p == ParseCommand(msg.message_text)
           quote_text == IF msg.quote.present THEN Strip(msg.quote.text) ELSE <<>>
           c == IF quote_text # <<>> THEN quote_text ELSE Strip(p.inline_text)
       IN /\ cmd' = p.cmd
          /\ level' = p.level
          /\ IF p.cmd = NoCmd \/ Denied(allowed, msg.source_number)
             THEN apc' = "done" /\ content' = <<>>
             ELSE IF p.cmd = CmdH
             THEN apc' = "help" /\ content' = <<>>
             ELSE /\ content' = c
                  /\ apc' = IF c = <<>> THEN "prompt" ELSE "ack"
    /\ UNCHANGED <<msg, posts, replyCalls, deliveries, err>>
    /\ UNCHANGED <<chatVars, parseVars, listenVars, mainVars, settingsVars, loopVars>>

\* one reply: the route is computed, then the POST is made and succeeds or raises
Deliver(what, route, next) ==
    /\ replyCalls' = replyCalls + 1
    /\ IF route.raised # "none"
       THEN /\ apc' = "failed"
            /\ err' = route.raised
            /\ UNCHANGED posts
       ELSE /\ posts' = Append(posts, [what |-> what, dest |-> route.dest])
            /\ \E ok \in BOOLEAN :
                 IF ok THEN apc' = next /\ UNCHANGED err
                 ELSE apc' = "failed" /\ err' = "HTTPError"
    /\ UNCHANGED <<msg, cmd, level, content, deliveries>>
    /\ UNCHANGED <<chatVars, parseVars, listenVars, mainVars, settingsVars>>

\* await self._run_help(msg)
SendHelp ==
    /\ apc = "help"
    /\ Deliver("help", RunHelp(msg), "done")
    /\ UNCHANGED loopVars

\* await self._reply(_wrap("Please reply to a message, ..."), msg)
SendPrompt ==
    /\ apc = "prompt"
    /\ Deliver("prompt", Reply(msg), "done")
    /\ UNCHANGED loopVars

\* await self._reply(ack, msg), then _run_expand / _run_condense enter _tool_loop
SendAck ==
    /\ apc = "ack"
    /\ Deliver("ack", Reply(msg), "model")
    /\ IF apc' = "model"
       THEN /\ messages' = InitTranscript(cmd, level, content)
            /\ iteration' = 0
            /\ UNCHANGED <<pending, answer, chatLog, toolRuns, args, replied>>
       ELSE UNCHANGED loopVars

\* await self._reply(_wrap(reply), msg)
SendAnswer ==
    /\ apc = "answer"
    /\ Deliver("answer", Reply(msg), "done")
    /\ UNCHANGED loopVars

\* handle_message is called once more with the same message
HandleAgain ==
    /\ apc \in {"done", "failed"}
    /\ deliveries < MaxDeliveries
    /\ deliveries' = deliveries + 1
    /\ apc' = "start"
    /\ cmd' = NoCmd
    /\ level' = 0
    /\ content' = <<>>
    /\ err' = "none"
    /\ messages' = <<>>
    /\ iteration' = 0
    /\ pending' = <<>>
    /\ answer' = <<>>
    /\ chatLog' = <<>>
    /\ toolRuns' = 0
    /\ args' = NoArgs
    /\ replied' = NoReply
    /\ UNCHANGED <<msg, posts, replyCalls>>
    /\ UNCHANGED <<chatVars, parseVars, listenVars, mainVars, settingsVars>>

----------------------------------------------------------------------------
(* src/agent.py: Agent._tool_loop *)

LoopFrame == UNCHANGED <<chatVars, parseVars, listenVars, mainVars, settingsVars, msg, cmd, level, content, posts, replyCalls, deliveries>>

\* the call wrapped in a handler that answers a fault with the empty text
ModelCall_SwallowsFault ==
    /\ apc = "model"
    /\ InRange(iteration, maxIter)
    /\ chatLog' = Append(chatLog, TRUE)
    /\ \/ /\ apc' = "answer"
          /\ err' = "ModelError"
          /\ replied' = NoReply
          /\ UNCHANGED <<messages, iteration, pending, answer, toolRuns, args>>
       \/ \E response \in Responses :
            /\ replied' = Got(response)
            /\ IF response.tool_calls = <<>>
               THEN /\ answer' = Strip(response.content)
                    /\ apc' = "answer"
                    /\ UNCHANGED <<messages, iteration, pending, toolRuns, args, err>>
               ELSE /\ messages' = Append(messages,
                           Entry("assistant", "", 0, <<>>, "", "",
                                 [i \in 1..Len(response.tool_calls) |-> response.tool_calls[i].name]))
                    /\ pending' = response.tool_calls
                    /\ apc' = "tool"
                    /\ UNCHANGED <<iteration, answer, toolRuns, args, err>>
    /\ LoopFrame

\* response = await self._ollama.chat(messages, tools=TOOL_DEFINITIONS)
ModelCall ==
    /\ apc = "model"
    /\ InRange(iteration, maxIter)
    /\ chatLog' = Append(chatLog, TRUE)
    /\ \/ /\ apc' = "failed"
          /\ err' = "ModelError"
          /\ replied' = NoReply
          /\ UNCHANGED <<messages, iteration, pending, answer, toolRuns, args>>
       \/ \E response \in Responses :
            /\ replied' = Got(response)
            /\ IF response.tool_calls = <<>>
               THEN /\ answer' = Strip(response.content)
                    /\ apc' = "answer"
                    /\ UNCHANGED <<messages, iteration, pending, toolRuns, args, err>>
               ELSE /\ messages' = Append(messages,
                           Entry("assistant", "", 0, <<>>, "", "",
                                 [i \in 1..Len(response.tool_calls) |-> response.tool_calls[i].name]))
                    /\ pending' = response.tool_calls
                    /\ apc' = "tool"
                    /\ UNCHANGED <<iteration, answer, toolRuns, args, err>>
    /\ LoopFrame

\* the body of `for call in tool_calls` up to `await asyncio.sleep(1.1)`
ToolExec ==
    /\ apc = "tool"
    /\ LET call == Head(pending)
           a == DecodeArgs(call.arguments)
       IN /\ args' = a
          /\ toolRuns' = IF call.name \in TOOL_REGISTRY /\ Binds(call.name, a)
                         THEN toolRuns + 1 ELSE toolRuns
          /\ \E o \in Outcomes(call, a) :
               IF o.raised = "none"
               THEN /\ messages' = Append(messages, ToolEntry(call, o.result))
                    /\ apc' = "pace"
                    /\ UNCHANGED err
               ELSE /\ apc' = "failed"
                    /\ err' = o.raised
                    /\ UNCHANGED messages
    /\ replied' = NoReply
    /\ UNCHANGED <<iteration, pending, answer, chatLog>>
    /\ LoopFrame

\* the round counter left alone when the last call of a response is done
Pace_SameRound ==
    /\ apc = "pace"
    /\ pending' = Tail(pending)
    /\ IF Tail(pending) = <<>>
       THEN UNCHANGED iteration /\ apc' = "model"
       ELSE UNCHANGED iteration /\ apc' = "tool"
    /\ args' = NoArgs
    /\ replied' = NoReply
    /\ UNCHANGED <<messages, answer, chatLog, toolRuns, err>>
    /\ LoopFrame

\* asyncio.sleep(1.1) returns: next call, or next round of the for loop
Pace ==
    /\ apc = "pace"
    /\ pending' = Tail(pending)
    /\ IF Tail(pending) = <<>>
       THEN iteration' = iteration + 1 /\ apc' = "model"
       ELSE UNCHANGED iteration /\ apc' = "tool"
    /\ args' = NoArgs
    /\ replied' = NoReply
    /\ UNCHANGED <<messages, answer, chatLog, toolRuns, err>>
    /\ LoopFrame

\* final = await self._ollama.chat(messages, tools=None)
ForcedFinal ==
    /\ apc = "model"
    /\ ~InRange(iteration, maxIter)
    /\ chatLog' = Append(chatLog, FALSE)
    /\ \/ /\ apc' = "failed"
          /\ err' = "ModelError"
          /\ replied' = NoReply
          /\ UNCHANGED answer
       \/ \E response \in Responses :
            /\ replied' = Got(response)
            /\ answer' = Strip(response.content)
            /\ apc' = "answer"
            /\ UNCHANGED err
    /\ UNCHANGED <<messages, iteration, pending, toolRuns, args>>
    /\ LoopFrame

----------------------------------------------------------------------------
(* SpecAgent: handle_message called with every message of InboundMessages *)

InitAgent ==
    /\ ChatIdle
    /\ allowed \in { {}, {"+1", "+2"}, {"+2"} }
    /\ maxIter \in 0..1
    /\ msg \in InboundMessages
    /\ apc = "start"
    /\ cmd = NoCmd
    /\ level = 0
    /\ content = <<>>
    /\ posts = <<>>
    /\ replyCalls = 0
    /\ deliveries = 1
    /\ err = "none"
    /\ LoopIdle
    /\ ParseIdle
    /\ ListenIdle
    /\ MainIdle

NextAgent ==
    \/ Handle \/ SendHelp \/ SendPrompt \/ SendAck \/ SendAnswer \/ HandleAgain
    \/ ModelCall \/ ToolExec \/ Pace \/ ForcedFinal

SpecAgent == InitAgent /\ [][NextAgent]_vars

----------------------------------------------------------------------------
(* SpecLoop: _tool_loop called with every max_tool_iterations up to MaxIter *)

InitLoop ==
    /\ ChatIdle
    /\ allowed = {}
    /\ maxIter \in 0..MaxIter
    /\ msg = NoMessage
    /\ apc = "model"
    /\ cmd \in {CmdE, CmdC}
    /\ level = DEFAULT_LEVEL
    /\ content = <<"q">>
    /\ posts = <<>>
    /\ replyCalls = 0
    /\ deliveries = 0
    /\ err = "none"
    /\ messages = InitTranscript(cmd, level, content)
    /\ iteration = 0
    /\ pending = <<>>
    /\ answer = <<>>
    /\ chatLog = <<>>
    /\ toolRuns = 0
    /\ args = NoArgs
    /\ replied = NoReply
    /\ ParseIdle
    /\ ListenIdle
    /\ MainIdle

NextLoop == ModelCall \/ ToolExec \/ Pace \/ ForcedFinal

SpecLoop == InitLoop /\ [][NextLoop]_vars

\* result = await tool_fn(**args) comes back: the tool returned or raised
ToolReturns == apc = "tool" /\ apc' \in {"pace", "failed"}

\* _tool_loop run by the event loop: an awaited model call, tool call or
\* sleep comes back, and the coroutine is resumed when it has
SpecLoopFair ==
    /\ SpecLoop
    /\ WF_vars(ModelCall)
    /\ WF_apc(ToolReturns)
    /\ WF_vars(Pace)
    /\ WF_vars(ForcedFinal)

----------------------------------------------------------------------------
(* src/main.py: the dispatcher of main(), and the tasks it creates.  A task  *)
(* is handle_message seen at its await points: a POST of a reply, a model    *)
(* call, a tool call, the pacing sleep.  The messages are those              *)
(* handle_message is called with in SpecAgent.                               *)

\* the messages the dispatcher receives
MainMessages ==
    { m \in InboundMessages :
        \/ m.source_number = "+2" /\ m.group_info = None /\ m.message_text \in { <<"/", "e">>, <<"x">> }
        \/ m.source_number = "+2" /\ m.group_info = "g1" /\ m.message_text = <<"/", "h">> /\ ~m.quote.present
        \/ m.source_number = Owner /\ m.group_info = None /\ m.message_text = <<"/", "e">> /\ ~m.quote.present }

\* agent.handle_message(msg), wrapped in a task that has not run yet
NewTask(m, ts) ==
    [ msg |-> m, pc |-> "created", sending |-> "", iteration |-> 0, left |-> 0,
      sent |-> <<>>, exc |-> "none",
      failedBefore |-> Cardinality({ i \in 1..Len(ts) : ts[i].pc = "failed" }) ]

\* the dispatcher awaits each task before it takes the next message
Blocking_Awaits(ts) == { i \in 1..Len(ts) : ts[i].pc \notin {"done", "failed"} }

\* the tasks the loop body waits for: asyncio.create_task returns at once
Blocking(ts) == {}

\* an exception raised in a task is raised in main() too
Escapes_ToMain(exc) == TRUE

\* an exception raised in a task stays in its Task object: main() never awaits it
Escapes(exc) == FALSE

\* `async for msg in sender.listen()` receives m: asyncio.create_task(agent.handle_message(msg))
Dispatch ==
    /\ mpc = "listening"
    /\ Len(tasks) < MaxTasks
    /\ Blocking(tasks) = {}
    /\ \E m \in MainMessages :
         /\ ingested' = Append(ingested, m)
         /\ tasks' = Append(tasks, NewTask(m, tasks))
    /\ UNCHANGED mpc
    /\ UNCHANGED <<chatVars, parseVars, listenVars, agentVars>>

\* task t goes on as r
Goes(t, r) ==
    /\ tasks' = [tasks EXCEPT ![t] = r]
    /\ UNCHANGED <<mpc, ingested>>

\* task t ends with the exception exc
Raises(t, exc) ==
    /\ tasks' = [tasks EXCEPT ![t] = [tasks[t] EXCEPT !.pc = "failed", !.exc = exc]]
    /\ mpc' = IF Escapes(exc) THEN "closed" ELSE mpc
    /\ UNCHANGED ingested

\* the task runs while the event loop of main() runs
Runs(t, pc) == mpc = "listening" /\ t \in 1..Len(tasks) /\ tasks[t].pc = pc

\* handle_message up to its first await
StartOf(t) ==
    /\ Runs(t, "created")
    /\ LET m == tasks[t].msg
           p == ParseCommand(m.message_text)
           quote_text == IF m.quote.present THEN Strip(m.quote.text) ELSE <<>>
           c == IF quote_text # <<>> THEN quote_text ELSE Strip(p.inline_text)
       IN IF p.cmd = NoCmd \/ Denied(allowed, m.source_number)
          THEN Goes(t, [tasks[t] EXCEPT !.pc = "done"])
          ELSE Goes(t, [tasks[t] EXCEPT !.pc = "send",
                          !.sending = IF p.cmd = CmdH THEN "help"
                                      ELSE IF c = <<>> THEN "prompt" ELSE "ack"])

\* the awaited _reply / _run_help returns or raises
SentOf(t) ==
    /\ Runs(t, "send")
    /\ LET task == tasks[t]
           route == IF task.sending = "help" THEN RunHelp(task.msg) ELSE Reply(task.msg)
       IN IF route.raised # "none"
          THEN Raises(t, route.raised)
          ELSE \/ Raises(t, "HTTPError")
               \/ Goes(t, [task EXCEPT !.sent = Append(task.sent, task.sending),
                                       !.sending = "",
                                       !.pc = IF task.sending = "ack" THEN "chat" ELSE "done"])

\* the awaited self._ollama.chat returns or raises
ChatOf(t) ==
    /\ Runs(t, "chat")
    /\ LET task == tasks[t] IN
       \/ Raises(t, "ModelError")
       \/ Goes(t, [task EXCEPT !.pc = "send", !.sending = "answer"])
       \/ /\ InRange(task.iteration, maxIter)
          /\ \E n \in 1..MaxCalls : Goes(t, [task EXCEPT !.pc = "tool", !.left = n])

\* the awaited tool_fn returns or raises; its result is appended
ToolOf(t) ==
    /\ Runs(t, "tool")
    /\ Goes(t, [tasks[t] EXCEPT !.pc = "sleep"])

\* the awaited asyncio.sleep(1.1) returns
SleepOf(t) ==
    /\ Runs(t, "sleep")
    /\ LET task == tasks[t] IN
       IF task.left > 1
       THEN Goes(t, [task EXCEPT !.pc = "tool", !.left = task.left - 1])
       ELSE Goes(t, [task EXCEPT !.pc = "chat", !.left = 0, !.iteration = task.iteration + 1])

\* one step of task t
Step(t) == StartOf(t) \/ SentOf(t) \/ ChatOf(t) \/ ToolOf(t) \/ SleepOf(t)

TaskFrame == UNCHANGED <<chatVars, parseVars, listenVars, agentVars>>

TaskStart == (\E t \in 1..Len(tasks) : StartOf(t)) /\ TaskFrame

TaskSent == (\E t \in 1..Len(tasks) : SentOf(t)) /\ TaskFrame

TaskChat == (\E t \in 1..Len(tasks) : ChatOf(t)) /\ TaskFrame

TaskTool == (\E t \in 1..Len(tasks) : ToolOf(t)) /\ TaskFrame

TaskSleep == (\E t \in 1..Len(tasks) : SleepOf(t)) /\ TaskFrame

\* SpecMain: main() with up to MaxTasks messages, every interleaving of the tasks
InitMain ==
    /\ ChatIdle
    /\ mpc = "listening"
    /\ ingested = <<>>
    /\ tasks = <<>>
    /\ allowed = {}
    /\ maxIter = 1
    /\ msg = NoMessage
    /\ apc = "off"
    /\ cmd = NoCmd
    /\ level = 0
    /\ content = <<>>
    /\ posts = <<>>
    /\ replyCalls = 0
    /\ deliveries = 0
    /\ err = "none"
    /\ LoopIdle
    /\ ParseIdle
    /\ ListenIdle

NextMain == Dispatch \/ TaskStart \/ TaskSent \/ TaskChat \/ TaskTool \/ TaskSleep

SpecMain == InitMain /\ [][NextMain]_vars

----------------------------------------------------------------------------
(* src/agent.py: the fixed texts the bot sends.  The characters outside      *)
(* ASCII are written as ASCII characters the texts do not use otherwise:     *)
(* the brackets of the border as ( and ), its heavy line as |, the robot as  *)
(* @, the thinking face as !, the book as $, the balloon as %, the en dash   *)
(* as ~, the em dash as ^, the bullet as *.  None of them is whitespace, a   *)
(* digit or a character of a command.                                        *)

\* n heavy-line characters
Rule(n) == [i \in 1..n |-> "|"]

\* _BORDER
BORDER == <<"(", "@", " ", "c", "h", "a", "t", "-", "h", "e", "l", "p", "e", "r", ")">> \o Rule(16)

\* _wrap(text)
Wrap(t) == BORDER \o <<"\n">> \o t \o <<"\n">> \o Rule(34)

\* HELP_TEXT, one row per string literal of the source
HELP_TEXT ==
    <<"$", " ", "C", "h", "a", "t", " ", "H", "e", "l", "p", "e", "r", "\n">>
    \o <<"\n">>
    \o <<"/", "e", " ", "[", "1", "~", "1", "0", "]", " ", "^", " ", "E", "x", "p", "a", "n", "d", " ", "&", " ", "r", "e", "s", "e", "a", "r", "c", "h", " ", "a", " ", "t", "o", "p", "i", "c", "\n">>
    \o <<" ", " ", "R", "e", "p", "l", "y", " ", "t", "o", " ", "a", " ", "m", "e", "s", "s", "a", "g", "e", " ", "w", "i", "t", "h", " ", "/", "e", " ", " ", "~", "o", "r", "~", " ", " ", "i", "n", "c", "l", "u", "d", "e", " ", "t", "e", "x", "t", "/", "U", "R", "L", " ", "i", "n", " ", "t", "h", "e", " ", "s", "a", "m", "e", " ", "m", "e", "s", "s", "a", "g", "e", "\n">>
    \o <<" ", " ", "e", ".", "g", ".", " ", " ", "/", "e", " ", "3", " ", " ", "*", " ", " ", "/", "e", " ", "h", "t", "t", "p", "s", ":", "/", "/", "e", "x", "a", "m", "p", "l", "e", ".", "c", "o", "m", " ", " ", "*", " ", " ", "s", "o", "m", "e", " ", "t", "e", "x", "t", " ", "/", "e", " ", "7", "\n">>
    \o <<" ", " ", "1", " ", "=", " ", "o", "n", "e", " ", "s", "e", "n", "t", "e", "n", "c", "e", " ", " ", "*", " ", " ", "1", "0", " ", "=", " ", "e", "x", "h", "a", "u", "s", "t", "i", "v", "e", " ", "d", "e", "e", "p", "-", "d", "i", "v", "e", " ", " ", "*", " ", " ", "D", "e", "f", "a", "u", "l", "t", ":", " ", "5", "\n">>
    \o <<"\n">>
    \o <<"/", "c", " ", "[", "1", "~", "1", "0", "]", " ", "^", " ", "C", "o", "n", "d", "e", "n", "s", "e", " ", "t", "e", "x", "t", "\n">>
    \o <<" ", " ", "R", "e", "p", "l", "y", " ", "t", "o", " ", "a", " ", "m", "e", "s", "s", "a", "g", "e", " ", "w", "i", "t", "h", " ", "/", "c", " ", " ", "~", "o", "r", "~", " ", " ", "i", "n", "c", "l", "u", "d", "e", " ", "t", "e", "x", "t", "/", "U", "R", "L", " ", "i", "n", " ", "t", "h", "e", " ", "s", "a", "m", "e", " ", "m", "e", "s", "s", "a", "g", "e", "\n">>
    \o <<" ", " ", "e", ".", "g", ".", " ", " ", "/", "c", " ", "3", " ", " ", "*", " ", " ", "h", "t", "t", "p", "s", ":", "/", "/", "y", "o", "u", "t", "u", ".", "b", "e", "/", "x", "x", "x", " ", "/", "c", " ", " ", "*", " ", " ", "l", "o", "n", "g", " ", "t", "e", "x", "t", " ", "/", "c", " ", "8", "\n">>
    \o <<" ", " ", "1", " ", "=", " ", "l", "i", "g", "h", "t", " ", "t", "r", "i", "m", " ", " ", "*", " ", " ", "1", "0", " ", "=", " ", "o", "n", "e", " ", "t", "o", " ", "f", "i", "v", "e", " ", "w", "o", "r", "d", "s", " ", " ", "*", " ", " ", "D", "e", "f", "a", "u", "l", "t", ":", " ", "5", "\n">>
    \o <<"\n">>
    \o <<"%", " ", "R", "e", "s", "p", "o", "n", "s", "e", "s", " ", "a", "r", "e", " ", "s", "e", "n", "t", " ", "a", "s", " ", "a", " ", "D", "M", ",", " ", "u", "n", "l", "e", "s", "s", " ", "y", "o", "u", "'", "r", "e", " ", "t", "h", "e", " ", "o", "w", "n", "e", "r", " ", "^", " ", "t", "h", "e", "n", " ", "t", "h", "e", "y", " ", "a", "p", "p", "e", "a", "r", " ", "i", "n", "-", "c", "h", "a", "n", "n", "e", "l", ".">>

\* the acknowledgement sent before the tool loop
AckText == <<"(", "@", "!", ".", ".", ".", ")">>

\* the text of the reply to a command without content
PromptText == <<"P", "l", "e", "a", "s", "e", " ", "r", "e", "p", "l", "y", " ", "t", "o", " ", "a", " ", "m", "e", "s", "s", "a", "g", "e", ",", " ", "o", "r", " ", "i", "n", "c", "l", "u", "d", "e", " ", "t", "e", "x", "t", "/", "U", "R", "L", " ", "a", "l", "o", "n", "g", "s", "i", "d", "e", " ", "/", "e", " ", "o", "r", " ", "/", "c", ".">>

\* what _run_help, the acknowledgement and the missing-content reply send
BotTexts == { Wrap(HELP_TEXT), AckText, Wrap(PromptText) }

----------------------------------------------------------------------------
(* SpecParse: _parse_command applied to every text of Texts and BotTexts *)

InitParse ==
    /\ ChatIdle
    /\ text \in Texts \cup BotTexts
    /\ parsed = NotParsed
    /\ ppc = "in"
    /\ ListenIdle
    /\ AgentIdle
    /\ MainIdle

Parse ==
    /\ ppc = "in"
    /\ parsed' = ParseCommand(text)
    /\ ppc' = "out"
    /\ UNCHANGED text
    /\ UNCHANGED <<listenVars, agentVars, mainVars, chatVars>>

NextParse == Parse

SpecParse == InitParse /\ [][NextParse]_vars

----------------------------------------------------------------------------
(* src/ollama_client.py: OllamaClient.chat and _parse_tool_calls_from_text *)

TagOpen == <<"<", "t", "o", "o", "l", "_", "c", "a", "l", "l", ">">>

TagClose == <<"<", "/", "t", "o", "o", "l", "_", "c", "a", "l", "l", ">">>

\* the first position at or after j where pat starts in str, 0 when there is none
RECURSIVE FindSeq(_, _, _)
FindSeq(str, pat, j) ==
    IF j + Len(pat) - 1 > Len(str) THEN 0
    ELSE IF SubSeq(str, j, j + Len(pat) - 1) = pat THEN j
    ELSE FindSeq(str, pat, j + 1)

\* pattern.finditer(text): group 1 of each match of <tool_call>(.*?)</tool_call>,
\* left to right, without overlap
RECURSIVE TagGroups(_, _)
TagGroups(str, j) ==
    LET o == FindSeq(str, TagOpen, j)
        c == IF o = 0 THEN 0 ELSE FindSeq(str, TagClose, o + Len(TagOpen)) IN
    IF o = 0 \/ c = 0 THEN <<>>
    ELSE <<SubSeq(str, o + Len(TagOpen), c - 1)>> \o TagGroups(str, c + Len(TagClose))

\* d.get(key, default) on the items of a dict; the values are the scalars
\* json.loads has read, {} is the scalar of type "dict"
Get(items, key, default) ==
    IF key \in Keys(items) THEN (CHOOSE it \in items : it.key = key).val ELSE default

\* the body of the for loop: json.loads(raw), then the "function" entry;
\* JSONDecodeError is logged, data.get on a value that is no dict raises
RECURSIVE ToolCallsOf(_, _)
ToolCallsOf(groups, acc) ==
    IF groups = <<>> THEN [raised |-> "none", calls |-> acc]
    ELSE LET data == JsonLoads(Strip(Head(groups))) IN
         IF ~data.ok THEN ToolCallsOf(Tail(groups), acc)
         ELSE IF data.value.type # "dict" THEN [raised |-> "AttributeError", calls |-> acc]
         ELSE ToolCallsOf(Tail(groups),
                  Append(acc, [name |-> Get(data.value.items, <<"n", "a", "m", "e">>, Scalar("str", <<>>, 0)),
                               arguments |-> Get(data.value.items, <<"a", "r", "g", "u", "m", "e", "n", "t", "s">>, Scalar("dict", <<>>, 0))]))

\* _parse_tool_calls_from_text(text)
ParseToolCallsFromText(str) == ToolCallsOf(TagGroups(str, 1), <<>>)

\* OllamaClient.chat(messages, tools) once the POST has been answered with
\* resp: raise_for_status, the native tool calls, else the tagged-text
\* fallback.  `tools` decides what is sent, and nothing of what is returned.
Chat(fb, offered, resp) ==
    IF resp.status # 200 THEN [raised |-> "HTTPStatusError", content |-> <<>>, tool_calls |-> <<>>]
    ELSE IF resp.tool_calls # <<>>
    THEN [raised |-> "none", content |-> resp.content, tool_calls |-> resp.tool_calls]
    ELSE IF fb /\ resp.content # <<>>
    THEN LET r == ParseToolCallsFromText(resp.content) IN
         IF r.raised # "none" THEN [raised |-> r.raised, content |-> <<>>, tool_calls |-> <<>>]
         ELSE [raised |-> "none", content |-> resp.content, tool_calls |-> r.calls]
    ELSE [raised |-> "none", content |-> resp.content, tool_calls |-> <<>>]

Tagged(body) == TagOpen \o body \o TagClose

\* message["content"] of the server's response: none, plain text, one tagged
\* call alone or inside text, a tag that is never closed, two tagged calls
ServedContents ==
    LET TagBodies ==
          { <<"{", DQ, "n", "a", "m", "e", DQ, ":", " ", DQ, "w", "e", "b", "_", "s", "e", "a", "r", "c", "h", DQ, "}">>,
            <<"\n", "{", DQ, "n", "a", "m", "e", DQ, ":", " ", DQ, "f", "e", "t", "c", "h", "_", "p", "a", "g", "e", DQ, ",", " ", DQ, "a", "r", "g", "u", "m", "e", "n", "t", "s", DQ, ":", " ", DQ, "x", DQ, "}", "\n">>,
            <<"{", DQ, "n", "a", "m", "e", DQ, ":", " ">>,
            <<"5">> } IN
    { <<>>, <<"a">> }
      \cup { Tagged(b) : b \in TagBodies }
      \cup { <<"a", " ">> \o Tagged(<<"{", DQ, "n", "a", "m", "e", DQ, ":", " ", DQ, "w", "e", "b", "_", "s", "e", "a", "r", "c", "h", DQ, "}">>) \o <<" ", "b">>,
             TagOpen \o <<"{", DQ, "n", "a", "m", "e", DQ, ":", " ", DQ, "w", "e", "b", "_", "s", "e", "a", "r", "c", "h", DQ, "}">>,
             Tagged(<<"{", DQ, "n", "a", "m", "e", DQ, ":", " ", DQ, "w", "e", "b", "_", "s", "e", "a", "r", "c", "h", DQ, "}">>) \o <<"\n">> \o Tagged(<<"{", DQ, "n", "a", "m", "e", DQ, ":", " ", DQ, "f", "e", "t", "c", "h", "_", "p", "a", "g", "e", DQ, "}">>) }

\* the responses to a POST: the server fills in tool_calls only for a request
\* that carried tool schemas
ServedTo(offered) ==
    [ status : {200, 500}, content : ServedContents,
      tool_calls : IF offered
                   THEN { <<>>,
                          << [name |-> Scalar("str", <<"w", "e", "b", "_", "s", "e", "a", "r", "c", "h">>, 0),
                              arguments |-> Scalar("dict", <<>>, 0)] >> }
                   ELSE {<<>>} ]

----------------------------------------------------------------------------
(* SpecChat: chat called with and without tool schemas, the fallback on and  *)
(* off, on every response of ServedTo                                        *)

InitChat ==
    /\ fallback \in BOOLEAN
    /\ tools \in BOOLEAN
    /\ served \in ServedTo(tools)
    /\ returned = NotReturned
    /\ cpc = "in"
    /\ ParseIdle
    /\ ListenIdle
    /\ AgentIdle
    /\ MainIdle

ChatCall ==
    /\ cpc = "in"
    /\ returned' = Chat(fallback, tools, served)
    /\ cpc' = "out"
    /\ UNCHANGED <<fallback, tools, served>>
    /\ UNCHANGED <<parseVars, listenVars, agentVars, mainVars>>

NextChat == ChatCall

SpecChat == InitChat /\ [][NextChat]_vars

----------------------------------------------------------------------------
(* Properties of the tool loop *)

\* C1: in one run of the tool loop at most max_tool_iterations model calls
\* offer the tool schemas; a call that offers none is call number
\* max_tool_iterations + 1 and no call follows it
\* (max_tool_iterations is 0 or more).
C1_ToolCallsBounded ==
    /\ Cardinality({ i \in 1..Len(chatLog) : chatLog[i] }) <= maxIter
    /\ \A i \in 1..Len(chatLog) :
         ~chatLog[i] => i = maxIter + 1 /\ i = Len(chatLog)

\* C1 witness: the model asked for tools in every round, and the run returned
\* from call number max_tool_iterations + 1, made without tools
C1_Witness ==
    /\ apc = "answer"
    /\ maxIter = MaxIter
    /\ iteration = maxIter
    /\ Len(chatLog) = maxIter + 1
    /\ ~chatLog[Len(chatLog)]

\* C21: when every model call and every tool execution returns, a run of the
\* tool loop ends with an answer (a sequence of characters) after at most
\* max_tool_iterations + 1 model calls, whatever the model asks for; a run
\* with max_tool_iterations = 0 makes the one call without tools.
C21_LoopTerminates ==
    /\ [](Len(chatLog) <= maxIter + 1)
    /\ [](maxIter = 0 => \A i \in 1..Len(chatLog) : ~chatLog[i])
    /\ [](apc = "answer" => /\ chatLog # <<>>
                            /\ \A i \in 1..Len(answer) : answer[i] \in STRING)
    /\ <>(apc = "answer" \/ err # "none")

\* C21 witness: the model asked for tools in every response, every call
\* returned, and the run ended with the answer of call max_tool_iterations + 1
C21_Witness ==
    /\ apc = "answer"
    /\ err = "none"
    /\ maxIter = MaxIter
    /\ Len(chatLog) = maxIter + 1
    /\ Cardinality({ i \in 1..Len(messages) : messages[i].role = "assistant" }) = maxIter
    /\ answer # <<>>

\* C21 witness: max_tool_iterations = 0, the one call is the one without tools
C21_WitnessZero ==
    /\ apc = "answer"
    /\ maxIter = 0
    /\ chatLog = <<FALSE>>

\* a is c without the whitespace at its two ends
IsTrimOf(a, c) ==
    \E i \in 0..Len(c) : \E j \in i..Len(c) :
        /\ a = SubSeq(c, i + 1, j)
        /\ \A k \in 1..Len(c) : (k <= i \/ k > j) => c[k] \in {" ", "\n", "\t"}
        /\ a # <<>> => a[1] \notin {" ", "\n", "\t"} /\ a[Len(a)] \notin {" ", "\n", "\t"}

\* the step is a model call, made with the tool schemas, that returned
ToolsCallReturned ==
    /\ Len(chatLog') = Len(chatLog) + 1
    /\ chatLog'[Len(chatLog')]
    /\ replied'.got

\* C22: a model call made with the tool schemas that returns tool calls hands
\* them to the tool execution whatever the content of the response is, and
\* that content is not the answer; one that returns no tool call ends the
\* run with the content, trimmed of surrounding whitespace, as the answer:
\* no tool is executed and nothing is appended to the transcript by it or
\* after it, and when it is the first call no iteration was completed.
C22_ResponseRouting ==
    /\ [][ToolsCallReturned =>
            IF replied'.calls > 0
            THEN /\ apc' = "tool"
                 /\ Len(pending') = replied'.calls
                 /\ answer' = answer /\ answer = <<>>
                 /\ Len(messages') = Len(messages) + 1
                 /\ messages'[Len(messages')].role = "assistant"
            ELSE /\ apc' = "answer"
                 /\ IsTrimOf(answer', replied'.content)
                 /\ messages' = messages
                 /\ toolRuns' = toolRuns
                 /\ iteration' = iteration
                 /\ chatLog = <<>> => iteration' = 0 /\ toolRuns' = 0 /\ Len(messages') = 2
         ]_vars
    /\ [](apc = "answer" => ~ENABLED NextLoop)

\* C22 witness: a response with tool calls and a content of its own went to
\* the tool execution
C22_Witness ==
    /\ apc = "tool"
    /\ replied.got /\ replied.calls > 0 /\ replied.content # <<>>
    /\ chatLog[Len(chatLog)]
    /\ answer = <<>>

\* C22 witness: a response without tool calls, its content padded with
\* whitespace, ended the run after a completed iteration
C22_WitnessAnswer ==
    /\ apc = "answer"
    /\ replied.got /\ replied.calls = 0
    /\ chatLog[Len(chatLog)]
    /\ Len(replied.content) > Len(answer) /\ answer # <<>>
    /\ iteration > 0

\* C22 witness: the first response had no tool call
C22_WitnessFirst ==
    /\ apc = "answer"
    /\ chatLog = <<TRUE>>
    /\ replied.got /\ replied.calls = 0
    /\ iteration = 0 /\ toolRuns = 0

\* C23: a chat call made without tool schemas returns a response with no
\* tool calls, whether the tagged-text fallback is enabled or not.
C23_NoSchemasNoToolCalls ==
    cpc = "out" /\ ~tools /\ returned.raised = "none" => returned.tool_calls = <<>>

\* the same with the fallback disabled: the case in which the code does
\* what C23 says
C23_WithoutFallback ==
    cpc = "out" /\ ~tools /\ ~fallback /\ returned.raised = "none"
        => returned.tool_calls = <<>>

----------------------------------------------------------------------------
(* Properties of handle_message and the reply router *)

IsCommandToken(tok) == Lower(tok) \in { <<"/", "e">>, <<"/", "c">>, <<"/", "h">> }

HasCommandToken(t) == \E i \in 1..Len(Split(t)) : IsCommandToken(Split(t)[i])

\* C4: when the allow-list is not empty and the sender is not in it, handling
\* the message makes no POST, no model call and no tool execution, whatever
\* its command, also when it is handled a second time.
C4_UnauthorizedSilent ==
    (allowed # {} /\ msg.source_number \notin allowed) =>
        /\ posts = <<>>
        /\ replyCalls = 0
        /\ chatLog = <<>>
        /\ messages = <<>>
        /\ toolRuns = 0
        /\ apc \in {"start", "done"}

\* C4 witness: a command from a sender outside the allow-list, handled twice
C4_Witness ==
    /\ allowed # {} /\ msg.source_number \notin allowed
    /\ HasCommandToken(msg.message_text)
    /\ deliveries = 2
    /\ apc = "done"
    /\ posts = <<>>

\* C5: for a message without any command token (/e, /c, /h in any case) the
\* parser reports no command and handling it makes no POST, no model call and
\* no tool execution.
C5_NoCommandNoReply ==
    (apc # "off" /\ ~HasCommandToken(msg.message_text)) =>
        /\ apc \in {"start", "done"}
        /\ apc = "done" => cmd = NoCmd
        /\ posts = <<>>
        /\ replyCalls = 0
        /\ chatLog = <<>>
        /\ toolRuns = 0

\* C5 witness: "/ex 7" from an allowed sender has been handled, nothing was sent
C5_Witness ==
    /\ apc = "done"
    /\ msg.message_text = <<"/", "e", "x", " ", "7">>
    /\ ~Denied(allowed, msg.source_number)
    /\ cmd = NoCmd
    /\ posts = <<>>

\* C6: every reply to a message whose sender is not the owner is a private
\* message to the sender, never a message to the group.
C6_NonOwnerPrivate ==
    msg.source_number # Owner =>
        \A i \in 1..Len(posts) : posts[i].dest = [kind |-> "dm", id |-> msg.source_number]

\* C7: the help text goes where the ack and the final answer of a message
\* with the same sender and group go, that is where _reply sends.
C7_HelpSameRoute ==
    \A i \in 1..Len(posts) :
        posts[i].what = "help" => posts[i].dest = Reply(msg).dest

\* C8: every reply to a message of the owner is delivered to exactly one
\* destination: the group when the message has group context, else the
\* sender (no InboundMessage carries a recovered destination).
C8_OwnerRouting ==
    msg.source_number = Owner =>
        /\ Len(posts) = replyCalls
        /\ \A i \in 1..Len(posts) :
             posts[i].dest = IF msg.group_info # None
                             THEN [kind |-> "group", id |-> msg.group_info]
                             ELSE [kind |-> "dm", id |-> msg.source_number]

----------------------------------------------------------------------------
(* Properties of the listener *)

RECURSIVE Pow2(_)
Pow2(n) == IF n <= 0 THEN 1 ELSE 2 * Pow2(n - 1)

LastWait == waits[Len(waits)]

\* C2: the sleep after the k-th consecutive failure (counted from the start or
\* from the last successful connection) is min(2^(k-1), 60) seconds; no sleep
\* exceeds 60; after a successful connection the count restarts, so the next
\* failure sleeps 1 second.
C2_BackoffSchedule ==
    /\ lpc = "sleeping" => LastWait = Min2(Pow2(fails - 1), 60)
    /\ \A i \in 1..Len(waits) : waits[i] >= 1 /\ waits[i] <= 60

\* C2 witness: sleeps of 32, 60 and 60 seconds, then, after a successful
\* connection, a failure followed by a sleep of 1 second
C2_Witness ==
    /\ lpc = "sleeping"
    /\ fails = 1
    /\ Len(waits) >= 4
    /\ SubSeq(waits, Len(waits) - 3, Len(waits)) = <<32, 60, 60, 1>>

\* C3: the listen loop never ends on its own: after any failure, while
\* connecting or while connected, it eventually attempts to connect again,
\* however many failures came before.
C3_AlwaysRetries == (lpc \in {"sleeping", "terminated"}) ~> (lpc = "connecting")

\* C3 witness: a new connection attempt after MaxFails or more failures in a row
C3_Witness == lpc = "connecting" /\ fails = MaxFails

----------------------------------------------------------------------------
(* Properties of the parser *)

CommandPositions(toks) == { i \in 1..Len(toks) : IsCommandToken(toks[i]) }

\* position of the first command token, 0 when there is none
FirstCommand(toks) ==
    LET ps == CommandPositions(toks) IN
    IF ps = {} THEN 0 ELSE CHOOSE i \in ps : \A j \in ps : i <= j

\* the token at position f is followed by a token that int() accepts
HasLevelToken(toks, f) == f > 0 /\ f < Len(toks) /\ IsIntLiteral(toks[f + 1])

\* C9: for every text the returned level is an integer in 1..10: an integer
\* token right after the command is clamped to the nearest bound, a missing or
\* non-numeric token gives the default 5.
C9_LevelInRange ==
    ppc = "out" =>
        LET toks == Split(text)
            f == FirstCommand(toks) IN
        /\ parsed.level \in 1..10
        /\ IF HasLevelToken(toks, f)
           THEN LET v == IntValue(toks[f + 1]) IN
                parsed.level = (IF v < 1 THEN 1 ELSE IF v > 10 THEN 10 ELSE v)
           ELSE parsed.level = 5

\* C9 witness: "-3" follows the command and the level returned is 1
C9_Witness ==
    /\ ppc = "out"
    /\ LET toks == Split(text)
           f == FirstCommand(toks) IN
       HasLevelToken(toks, f) /\ toks[f + 1] = <<"-", "3">>
    /\ parsed.level = 1

\* C10: a command token is recognized at any position; the returned command is
\* the first command token of the text (lower-cased), and every token after it
\* and after its level token, later command tokens and the integers that
\* follow them included, ends the residual text, unchanged and in order.
C10_FirstCommandWins ==
    ppc = "out" =>
        LET toks == Split(text)
            n == Len(toks)
            f == FirstCommand(toks)
            k == IF HasLevelToken(toks, f) THEN f + 1 ELSE f
            r == Split(parsed.inline_text) IN
        IF f = 0
        THEN parsed.cmd = NoCmd
        ELSE /\ parsed.cmd = Lower(toks[f])
             /\ \A j \in CommandPositions(toks) : j # f => j > k
             /\ Len(r) >= n - k
             /\ SubSeq(r, Len(r) - (n - k) + 1, Len(r)) = SubSeq(toks, k + 1, n)

\* C10 witness: "x /E /c": the command is found in second position, and the
\* later "/c" stays in the residual text "x /c"
C10_Witness ==
    /\ ppc = "out"
    /\ Split(text) = << <<"x">>, <<"/", "E">>, <<"/", "c">> >>
    /\ parsed.cmd = <<"/", "e">>
    /\ parsed.inline_text = <<"x", " ", "/", "c">>

\* the tokens of toks outside positions a..b, in order
Without(toks, a, b) == SubSeq(toks, 1, a - 1) \o SubSeq(toks, b + 1, Len(toks))

\* the tokens of ts separated by exactly one space
RECURSIVE Spaced(_)
Spaced(ts) ==
    IF ts = <<>> THEN <<>>
    ELSE IF Len(ts) = 1 THEN ts[1]
    ELSE LET h == (Len(ts) + 1) \div 2 IN
         Spaced(SubSeq(ts, 1, h)) \o <<" ">> \o Spaced(SubSeq(ts, h + 1, Len(ts)))

\* C11: if the token right after the first command token parses as an integer
\* it becomes the clamped level and is left out of the residual text; otherwise
\* it stays in the residual text and the level is the default 5. The residual
\* text is exactly the remaining tokens, in order, joined by single spaces.
C11_LevelTokenConsumed ==
    ppc = "out" =>
        LET toks == Split(text)
            f == FirstCommand(toks) IN
        IF f = 0
        THEN parsed.inline_text = Spaced(toks)
        ELSE IF HasLevelToken(toks, f)
        THEN /\ parsed.level = Max2(1, Min2(10, IntValue(toks[f + 1])))
             /\ parsed.inline_text = Spaced(Without(toks, f, f + 1))
        ELSE /\ parsed.level = 5
             /\ parsed.inline_text = Spaced(Without(toks, f, f))

\* C11 witness: "x\n /e 7" gives level 7 and the residual text "x"; the 7 is
\* consumed
C11_Witness ==
    /\ ppc = "out"
    /\ Split(text) = << <<"x">>, <<"/", "e">>, <<"7">> >>
    /\ parsed.level = 7
    /\ parsed.inline_text = <<"x">>

\* C11 second case: "/e x 7": the token after the command is no integer, so it
\* stays, with the later 7, in the residual text "x 7" and the level is 5
C11_WitnessKept ==
    /\ ppc = "out"
    /\ Split(text) = << <<"/", "e">>, <<"x">>, <<"7">> >>
    /\ parsed.level = 5
    /\ parsed.inline_text = <<"x", " ", "7">>

----------------------------------------------------------------------------
(* Properties of the transcript *)

\* C12: in every state of a run of the tool loop the transcript starts with
\* exactly one system entry followed by exactly one user entry, and every step
\* leaves the transcript unchanged or appends one entry to it (the assistant
\* entry after a model call, a tool-result entry after a tool call): no entry
\* is ever removed, reordered or rewritten.
C12_TranscriptAppendOnly ==
    /\ [](/\ Len(messages) >= 2
          /\ messages[1].role = "system"
          /\ messages[2].role = "user"
          /\ \A i \in 3..Len(messages) : messages[i].role \in {"assistant", "tool"})
    /\ [][\/ messages' = messages
          \/ /\ Len(messages') = Len(messages) + 1
             /\ SubSeq(messages', 1, Len(messages)) = messages
             /\ messages'[Len(messages')].role =
                    (IF apc = "model" THEN "assistant" ELSE "tool")]_vars

\* C12 witness: two rounds have appended an assistant entry and its tool
\* results each, and the first two entries are still the system and user entry
C12_Witness ==
    /\ Len(messages) >= 6
    /\ messages[1].role = "system"
    /\ messages[2].role = "user"
    /\ messages[3].role = "assistant"
    /\ messages[4].role = "tool"
    /\ messages[Len(messages)].role = "tool"
    /\ iteration = 1

\* the tool calls of the current response that are still to be processed
Unprocessed ==
    IF apc = "tool" THEN Len(pending)
    ELSE IF apc = "pace" THEN Len(pending) - 1
    ELSE 0

\* ms is a sequence of rounds: an assistant entry that requests the calls ns,
\* then one tool entry per call, in the order of ns and named as the call; the
\* last round holds the entries of the calls processed so far
RECURSIVE Rounds(_)
Rounds(ms) ==
    IF ms = <<>> THEN TRUE
    ELSE LET ns == Head(ms).calls
             rest == Tail(ms)
             last == \A i \in 1..Len(rest) : rest[i].role = "tool"
             k == IF last THEN Len(ns) - Unprocessed ELSE Len(ns) IN
         /\ Head(ms).role = "assistant"
         /\ ns # <<>>
         /\ k >= 0 /\ Len(rest) >= k
         /\ last => Len(rest) = k
         /\ \A i \in 1..k :
              /\ rest[i].role = "tool"
              /\ rest[i].name = ns[i]
              /\ rest[i].result \in {"Tool result", "Tool error", "Unknown tool"}
         /\ Rounds(SubSeq(rest, k + 1, Len(rest)))

RECURSIVE Requested(_)
Requested(ms) ==
    IF ms = <<>> THEN 0
    ELSE (IF Head(ms).role = "assistant" THEN Len(Head(ms).calls) ELSE 0) + Requested(Tail(ms))

ToolEntries(ms) == Cardinality({ i \in 1..Len(ms) : ms[i].role = "tool" })

\* C13: in every round the assistant response is appended first, then, for
\* each requested tool call in order, exactly one tool-result entry tagged with
\* that call's name, whether the call succeeded, failed or named an unknown
\* tool; the number of tool-result entries always equals the number of tool
\* calls processed so far.
C13_OneResultPerCall ==
    /\ Rounds(SubSeq(messages, 3, Len(messages)))
    /\ ToolEntries(messages) = Requested(messages) - Unprocessed

\* C13 witness: a response asked for an unknown tool and then for web_search
\* with arguments that do not fit; both calls are processed and the transcript
\* holds the assistant entry and, in order, one result for each
C13_Witness ==
    /\ apc = "model"
    /\ Len(messages) = 5
    /\ messages[3].role = "assistant"
    /\ messages[3].calls = <<"nonexistent_tool", "web_search">>
    /\ messages[4].name = "nonexistent_tool" /\ messages[4].result = "Unknown tool"
    /\ messages[5].name = "web_search" /\ messages[5].result = "Tool error"
    /\ toolRuns = 0

----------------------------------------------------------------------------
(* Properties of tool faults *)

\* the entry the last ToolExec appended
LastEntry == messages[Len(messages)]

\* C14: no tool fault ends the run or leaves the tool loop as an exception. A
\* name the registry lacks, arguments that fail to decode or do not fit the
\* tool, and an exception raised while the tool runs each leave a descriptive
\* text as the tool result of that call; the remaining calls are processed and
\* the loop goes on to the next model call.
C14_ToolFaultsContained ==
    /\ [](apc = "failed" => err = "ModelError")
    /\ [](apc = "pace" =>
            LET call == Head(pending) IN
            /\ LastEntry.role = "tool" /\ LastEntry.name = call.name
            /\ call.name \notin {"web_search", "get_transcript", "fetch_page"}
                  => LastEntry.result = "Unknown tool"
            /\ (/\ call.name = "web_search"
                /\ \/ call.arguments.type = "str" /\ ~JsonLoads(call.arguments.s).ok
                   \/ KeyQuery \notin Keys(args.items)
                   \/ \E k \in Keys(args.items) : k \notin {KeyQuery, KeyMaxResults})
                  => LastEntry.result = "Tool error"
            /\ LastEntry.result \in {"Unknown tool", "Tool error", "Tool result"})
    /\ [][/\ apc = "tool" => apc' = "pace" /\ Len(messages') = Len(messages) + 1
          /\ apc = "pace" => /\ pending' = Tail(pending)
                             /\ apc' = IF pending' = <<>> THEN "model" ELSE "tool"]_vars

\* C14 witness: a round whose two calls failed (an unknown tool, then a
\* registered tool that did run and raised) was followed by a second model call
C14_Witness ==
    /\ Len(chatLog) = 2
    /\ Len(messages) >= 5
    /\ messages[4].result = "Unknown tool"
    /\ messages[5].result = "Tool error"
    /\ toolRuns = 1
    /\ err = "none"

----------------------------------------------------------------------------
(* Properties of the decoding of arguments *)

\* the argument lists whose two arrivals are compared
ArgLists == { <<>>, QueryArgs, QueryCountArgs, BogusArgs }

\* the mapping with the items of d
Structured(d) == [type |-> "dict", s |-> <<>>, n |-> 0, items |-> { d[i] : i \in 1..Len(d) }]

\* the texts that encode d
Encodings(d) == { JsonDumps(d, compact) : compact \in BOOLEAN }

\* C20: for a tool call whose arguments arrive as a well-formed encoded string
\* the tool is called with the same structured arguments, and the same
\* tool-result entry is appended, as when the arguments arrive already
\* structured; a string that fails to decode is replaced by the empty argument
\* set and the run goes on.  (The decoder alone is compared on every argument
\* list before the first call of a run, then every processed call is examined.)
C20_EncodedArgsEquivalent ==
    /\ chatLog = <<>> =>
          \A d \in ArgLists : \A e \in Encodings(d) :
              DecodeArgs([type |-> "str", s |-> e, n |-> 0, items |-> {}]) = DecodeArgs(Structured(d))
    /\ apc = "pace" =>
          LET call == Head(pending) IN
          /\ \A d \in ArgLists :
                call.arguments.type = "str" /\ call.arguments.s \in Encodings(d) =>
                    /\ args = Structured(d)
                    /\ \E o \in Outcomes([name |-> call.name, arguments |-> Structured(d)], Structured(d)) :
                          o.raised = "none" /\ LastEntry = ToolEntry(call, o.result)
          /\ call.arguments.type = "str" /\ ~JsonLoads(call.arguments.s).ok =>
                    /\ args = Structured(<<>>)
                    /\ LastEntry.role = "tool" /\ LastEntry.name = call.name
    /\ apc = "failed" => err = "ModelError"

\* C20 witness: web_search was asked for with the text {"query":"a","max_results":3};
\* it ran with the mapping of these two items and its result was appended
C20_Witness ==
    /\ apc = "pace"
    /\ Head(pending).arguments.type = "str"
    /\ Head(pending).arguments.s = JsonDumps(QueryCountArgs, TRUE)
    /\ Cardinality(args.items) = 2
    /\ args = Structured(QueryCountArgs)
    /\ LastEntry.result = "Tool result"
    /\ toolRuns >= 1

\* C20 second case: the text was cut before its closing brace; the call was made
\* with no arguments, its TypeError became the result, and the run goes on
C20_WitnessUndecodable ==
    /\ apc = "pace"
    /\ Head(pending).arguments.type = "str"
    /\ ~JsonLoads(Head(pending).arguments.s).ok
    /\ args.type = "dict" /\ args.items = {}
    /\ LastEntry.result = "Tool error"

----------------------------------------------------------------------------
(* Properties of model faults *)

\* C19: if a model call raises, the failure leaves the tool loop and ends the
\* task of that message: after the failed call the task makes no further model
\* call, tool execution or reply send, and no final answer is produced for the
\* message.  (The only step that follows is a new call of handle_message.)
C19_ModelFaultEndsTask ==
    /\ [](err = "ModelError" => apc = "failed" /\ answer = <<>>)
    /\ [][err = "ModelError" =>
            /\ deliveries' = deliveries + 1
            /\ apc' = "start"
            /\ posts' = posts
            /\ replyCalls' = replyCalls]_vars

\* C19 witness: the acknowledgement was sent, a first model call asked for a
\* tool, the tool ran, and the second model call raised: the task has failed
\* and the acknowledgement is the only send
C19_Witness ==
    /\ err = "ModelError"
    /\ apc = "failed"
    /\ deliveries = 1
    /\ Len(chatLog) = 2
    /\ toolRuns = 1
    /\ Len(posts) = 1 /\ posts[1].what = "ack"

----------------------------------------------------------------------------
(* Properties of the events of a connection *)

\* the event has no ignorable type and carries a direct-message or sync-echo
\* payload whose body is not blank
CarriesMessage(f) ==
    /\ ~f.typing /\ ~f.receipt
    /\ \E body \in {f.data, f.sync} : body.kind = "object" /\ Strip(body.message) # <<>>

\* C17: for every event received on a connection exactly one InboundMessage is
\* yielded if the event has no ignorable type and carries a direct-message or
\* sync-echo payload with a non-blank body, and none otherwise; in both cases
\* the listener stays on the same connection and goes on to the next event.
C17_OneMessagePerEvent ==
    (lastEvent.seen /\ lastEvent.frame.json /\ lastEvent.frame.dict) =>
        /\ lastEvent.yields = (IF CarriesMessage(lastEvent.frame) THEN 1 ELSE 0)
        /\ lpc = "connected"

\* C18: a single raw event that cannot be parsed, or that does not decode into
\* an envelope, is skipped: it yields no message, the connection stays open
\* with no reconnect or backoff, and the next event of the same connection is
\* processed.
C18_MalformedEventSkipped ==
    (lastEvent.seen /\ (~lastEvent.frame.json \/ ~lastEvent.frame.dict)) =>
        /\ lastEvent.yields = 0
        /\ lpc = "connected"
        /\ fails = 0

----------------------------------------------------------------------------
(* Properties of the dispatcher *)

\* the dispatcher can take the next message (while fewer than MaxTasks were taken)
CanTakeNext == Len(tasks) < MaxTasks => ENABLED Dispatch

\* C15: the dispatcher starts one handling task per message the listener
\* yields, in ingestion order, and does not wait for it: a task stalled in a
\* model call, a tool call or the pacing delay never keeps the dispatcher from
\* receiving a later message and starting its task.
C15_TaskPerMessage ==
    /\ [](/\ Len(tasks) = Len(ingested)
          /\ \A i \in 1..Len(tasks) : tasks[i].msg = ingested[i])
    /\ []CanTakeNext
    /\ [][Len(ingested') > Len(ingested) =>
            /\ Len(tasks') = Len(tasks) + 1
            /\ SubSeq(tasks', 1, Len(tasks)) = tasks
            /\ tasks'[Len(tasks')].pc = "created"]_vars

\* C15 witness: the first task is still in its first model call, and the task
\* of a later message was started, ran its tool round and has sent its answer
C15_Witness ==
    /\ Len(tasks) = 2
    /\ tasks[1].pc = "chat" /\ tasks[1].iteration = 0
    /\ tasks[2].pc = "done" /\ tasks[2].iteration = 1
    /\ tasks[2].sent = <<"ack", "answer">>

\* the sends of a task that has run to its end, by its message alone
ExpectedSent(m) ==
    LET toks == Split(m.message_text)
        f == FirstCommand(toks) IN
    IF f = 0 THEN <<>>
    ELSE IF Lower(toks[f]) = <<"/", "h">> THEN <<"help">>
    ELSE IF (m.quote.present /\ Strip(m.quote.text) # <<>>) \/ Len(toks) > 1
    THEN <<"ack", "answer">>
    ELSE <<"prompt">>

\* C16: a failure inside one handling task (a model fault, a send error) does
\* not end the loop of the dispatcher, does not keep later messages from being
\* dispatched, and does not change the replies or the outcome of any other
\* task in flight, under every interleaving: the event loop of main() keeps
\* running the tasks, a step of one task changes no other task, and a task
\* that ends has sent what its own message calls for.
C16_FailureIsolated ==
    /\ []((\E t \in 1..Len(tasks) : tasks[t].pc = "failed") =>
            /\ mpc = "listening"
            /\ CanTakeNext)
    /\ [](\A u \in 1..Len(tasks) : tasks[u].pc = "done" => tasks[u].sent = ExpectedSent(tasks[u].msg))
    /\ [][\A u \in 1..Len(tasks) : tasks'[u] # tasks[u] =>
            \A v \in 1..Len(tasks) : v # u => tasks'[v] = tasks[v]]_vars

\* C16 witness: the first task failed in a model call; the second message was
\* dispatched after that failure and its task has sent both its replies
C16_Witness ==
    /\ Len(tasks) = 2
    /\ tasks[1].pc = "failed" /\ tasks[1].exc = "ModelError"
    /\ tasks[2].failedBefore = 1
    /\ tasks[2].pc = "done"
    /\ tasks[2].sent = <<"ack", "answer">>
    /\ mpc = "listening"

----------------------------------------------------------------------------
(* Properties of the content and the sends of a command *)

NonBlank(t) == \E i \in 1..Len(t) : t[i] \notin {" ", "\n", "\t"}

\* the sender may use the bot
Authorized == allowed = {} \/ msg.source_number \in allowed

\* the command, the level and the residual text of the message, read off its tokens
Asked ==
    LET toks == Split(msg.message_text)
        f == FirstCommand(toks)
        lv == HasLevelToken(toks, f)
        v == IF lv THEN IntValue(toks[f + 1]) ELSE 5 IN
    [ cmd |-> IF f = 0 THEN <<>> ELSE Lower(toks[f]),
      level |-> IF v < 1 THEN 1 ELSE IF v > 10 THEN 10 ELSE v,
      residual |-> IF f = 0 THEN Spaced(toks)
                   ELSE Spaced(Without(toks, f, IF lv THEN f + 1 ELSE f)) ]

\* the message has a quote whose text is not blank
Quoted == msg.quote.present /\ NonBlank(msg.quote.text)

\* the system instruction of the transcript is the one of the command asked
\* for, at the level asked for
InstructionAsAsked ==
    /\ Asked.cmd \in { <<"/", "e">>, <<"/", "c">> }
    /\ Authorized
    /\ Len(messages) >= 2
    /\ messages[1].role = "system"
    /\ messages[1].kind = (IF Asked.cmd = <<"/", "e">> THEN "expand" ELSE "condense")
    /\ messages[1].level = Asked.level
    /\ messages[2].role = "user"
    /\ messages[2].kind = messages[1].kind

\* C24 as stated: the content handed to the tool loop is the text of the
\* quote when that text is not blank, whatever the inline text, and the
\* residual inline text otherwise; the command and the level (default 5)
\* reach the system instruction unchanged.
C24_ContentAsStated ==
    messages # <<>> =>
        /\ InstructionAsAsked
        /\ messages[2].text = (IF Quoted THEN msg.quote.text ELSE Asked.residual)

\* C24 amended: the content handed to the tool loop is the text of the quote
\* without its surrounding whitespace when that text is not blank, whatever
\* the inline text, and the residual inline text (never blank then) when there
\* is no quote or the quote is blank; the command and the level (default 5)
\* reach the system instruction unchanged.
C24_ContentChoice ==
    messages # <<>> =>
        /\ InstructionAsAsked
        /\ IF Quoted
           THEN IsTrimOf(messages[2].text, msg.quote.text)
           ELSE messages[2].text = Asked.residual /\ NonBlank(Asked.residual)

\* C24 witness: "x /E 15" sent as a reply to " q ": the content is "q", not
\* the inline "x", and the instruction is the expand one at level 10
C24_Witness ==
    /\ apc = "model"
    /\ msg.message_text = <<"x", " ", "/", "E", " ", "1", "5">>
    /\ msg.quote = [present |-> TRUE, text |-> <<" ", "q", " ">>]
    /\ messages[1].kind = "expand" /\ messages[1].level = 10
    /\ messages[2].text = <<"q">>

\* C24 witness: the same text sent as a reply to a blank quote: the content
\* is the inline "x"
C24_WitnessInline ==
    /\ apc = "model"
    /\ msg.message_text = <<"x", " ", "/", "E", " ", "1", "5">>
    /\ msg.quote = [present |-> TRUE, text |-> <<" ", " ">>]
    /\ messages[2].text = <<"x">>

\* the sends of one kind made so far
Sends(what) == { i \in 1..Len(posts) : posts[i].what = what }

\* the task is past its acknowledgement / has ended
PastAck == apc \notin {"start", "ack"}

Ended == apc \in {"done", "failed"}

\* the sends of the first task of an authorized /e or /c command, in order
SendsInOrder ==
    IF Quoted \/ NonBlank(Asked.residual)
    THEN /\ Sends("prompt") = {} /\ Sends("help") = {}
         /\ PastAck => Sends("ack") = {1}
         /\ chatLog # <<>> \/ toolRuns > 0 => Sends("ack") = {1}
         /\ Sends("answer") \subseteq {2}
         /\ Sends("answer") # {} => Ended /\ chatLog # <<>> /\ posts[2].dest = posts[1].dest
         /\ apc = "done" => Sends("answer") = {2}
    ELSE /\ Sends("ack") = {} /\ Sends("answer") = {} /\ Sends("help") = {}
         /\ chatLog = <<>> /\ toolRuns = 0 /\ messages = <<>>
         /\ Ended => Sends("prompt") = {1} /\ Len(posts) = 1

\* C25: the first task of an authorized /e or /c command with content sends
\* exactly one ack, before the first model call, and exactly one final answer,
\* after the tool loop has returned, to the destination of the ack; without a
\* non-blank quote and without inline text it sends exactly one reply, the
\* usage prompt, and makes no ack, model call or tool execution.
C25_SendsOrdered ==
    deliveries = 1 /\ Authorized /\ Asked.cmd \in { <<"/", "e">>, <<"/", "c">> }
        => SendsInOrder

\* the same for the messages whose reply does not go through the read of
\* msg.destination_number (C8): every sender but the owner outside a group
C25_SendsOrderedRouted ==
    ( /\ deliveries = 1 /\ Authorized /\ Asked.cmd \in { <<"/", "e">>, <<"/", "c">> }
      /\ ~(msg.source_number = Owner /\ msg.group_info = None) )
        => SendsInOrder

----------------------------------------------------------------------------
(* Properties of the bot's own texts *)

\* C26: _parse_command finds no command in any of the fixed texts the bot
\* sends (the wrapped help text, the acknowledgement, the wrapped reply to a
\* command without content), so that such a text coming back to
\* handle_message starts no run and no further reply.
C26_OwnTextsNotCommands ==
    ppc = "out" /\ text \in BotTexts => parsed.cmd = NoCmd

\* the acknowledgement alone: the one fixed text in which no command is found
C26_AckNotCommand ==
    ppc = "out" /\ text = AckText => parsed.cmd = NoCmd /\ parsed.inline_text = AckText

====
